---- MODULE Spec2Model ----
(***************************************************************************)
(* Concurrent control core of the LEGO robotic arm (src/main.c): the eight *)
(* periodic activities created at main.c:585-597, the six mutex-protected  *)
(* observables they share, and the three motors they command.              *)
(*                                                                         *)
(* Granularity.  Every pthread_mutex_lock is a step of its own (it may     *)
(* block); the critical section, the unlock and the thread-local work that *)
(* follows (device commands on the thread's own motor, assignments to its  *)
(* locals) form the next step, up to the next lock or sleep.  Every sleep  *)
(* (clock_nanosleep, usleep) is a step of its own.                         *)
(*                                                                         *)
(* Environment.  Key presses, sensor readings, encoder positions and the   *)
(* RUNNING bit of a motor are inputs: each read draws a value with \E.     *)
(***************************************************************************)
EXTENDS Integers, Sequences, FiniteSets, TLC

(* ------------------------- program constants -------------------------- *)
ROTATION_POWER == 30
ELEVATION_UP_POWER == -30
ELEVATION_DOWN_POWER == 20
CLAW_POWER == 40
ROTATION_INIT_UNITS == -350
ELEVATION_INIT_UNITS == 100
CLAW_INIT_UNITS == 90
TOUCH_SENSOR_ACTIVE == 1
TOUCH_SENSOR_INACTIVE == 0
REFLECTION_LIMIT == 30
TOP_BOTTOM_POS == 200
TOP_LEFT_POS == -400
\* usleep arguments, microseconds
SUSPENSION_TIME == 2000
CHECK_STATE_TIME == 1000
CLAW_CLOSE_TIME == 500000
\* clock_nanosleep periods, nanoseconds
BUTTON_PERIOD == 180000000
COLOR_PERIOD == 200000000
TOUCH_PERIOD == 200000000
MOTOR_PERIOD == 90000000
LED_PERIOD == 40000000
REPORTER_PERIOD == 500000000

(* ------------------------------ bounds -------------------------------- *)
\* end-of-period sleeps counted after Close is set (the count saturates here)
MaxNaps == 2
\* toggles counted while CENTER stays pressed (the count saturates here)
MaxHeldToggles == 2

(* --------------------------- names and sets --------------------------- *)
Threads == {"buttons", "color", "touch", "rotation", "elevation", "claw", "leds", "reporter"}
Axes == {"rotation", "elevation"}
Motors == {"rotation", "elevation", "claw"}
Mutexes == {"motors", "top", "clockwise", "close", "correction", "claw_used"}
DirectionKeys == {"LEFT", "RIGHT", "UP", "DOWN", "CENTER"}

\* the sampler thread that sets the limit flag of an axis
SamplerOf(a) == IF a = "rotation" THEN "touch" ELSE "color"
\* the mutex of the limit flag of an axis (clockwise_limit / top_limit)
LimitMutex(a) == IF a = "rotation" THEN "clockwise" ELSE "top"

\* period of each activity, microseconds
Period(t) ==
  CASE t = "buttons" -> BUTTON_PERIOD \div 1000
    [] t = "color" -> COLOR_PERIOD \div 1000
    [] t = "touch" -> TOUCH_PERIOD \div 1000
    [] t \in Motors -> MOTOR_PERIOD \div 1000
    [] t = "leds" -> LED_PERIOD \div 1000
    [] t = "reporter" -> REPORTER_PERIOD \div 1000

\* sensor readings, encoder positions: the values either side of each threshold
SensorReadings(a) ==
  IF a = "rotation" THEN {TOUCH_SENSOR_INACTIVE, TOUCH_SENSOR_ACTIVE}
  ELSE {REFLECTION_LIMIT - 1, REFLECTION_LIMIT, REFLECTION_LIMIT + 1}
Positions(a) ==
  IF a = "rotation" THEN {TOP_LEFT_POS - 1, TOP_LEFT_POS, 0}
  ELSE {0, TOP_BOTTOM_POS, TOP_BOTTOM_POS + 1}

VARIABLES
  pc,                      \* control position of each activity
  owner,                   \* holder of each mutex, "none" when free
  new_motors_status,       \* Intent: [rotation, elevation, claw]
  limit_reached,           \* rotation: clockwise_limit_reached, elevation: top_limit_reached
  correction_in_progress,
  claw_used_status,        \* ClawClosed
  close,
  axis_actual, axis_next,  \* rotation_actual/elevation_actual, rotation_next/elevation_next
  recovery,                \* branch of the limit if-chain an axis controller is in
  claw_open, claw_status,  \* locals of claw_motor_controller
  previous,                \* local of leds_controller
  back_read,               \* last result of ev3_button_pressed(BUTTON_BACK)
  duty_cycle_sp, position_sp, command,   \* per motor: last values written to the device
  led,                     \* colour last written to the two LEDs
  lcd,                     \* what the display shows: cleared, or the claw glyph drawn
  log,                     \* per activity: what it did since its last loop test
  naps,                    \* per activity: end-of-period sleeps completed with Close set
  stall,                   \* per activity: longest usleep begun with Close set (us)
  failed,                  \* activity whose device operation returned an error, or "none"
  scenario,                \* which activities the scheduler runs in this behaviour
  main, main_i,            \* control position of the main thread, and its count of joins / parkings
  mutex_state,             \* per mutex: "raw" before pthread_mutex_init, "ready", "destroyed"
  held_toggles,            \* toggles the claw controller began since CENTER was last read released
  seen,                    \* per axis: "first" until its controller has read an Intent, then
                           \* "steady" in a tick that read the Intent of the tick before,
                           \* which that tick had left as the current action
  stale,                   \* per axis: the sampler is about to write the flag for a reading
                           \* that is older than the flag's last clear
  unserved                 \* the button sampler has published ACTIVE since the claw
                           \* controller last read the Intent

shared == <<new_motors_status, limit_reached, correction_in_progress, claw_used_status, close>>
locals == <<axis_actual, axis_next, recovery, claw_open, claw_status, previous, back_read>>
devices == <<duty_cycle_sp, position_sp, command, led, lcd>>
timing == <<naps, stall>>
\* what the main thread owns
stage == <<scenario, main, main_i, mutex_state>>
\* what an activity leaves alone in all but a few of its steps
\* what the claims look at beyond the program's own state
ghosts == <<held_toggles, seen, stale, unserved>>
fate == <<failed, stage, ghosts>>
vars == <<pc, owner, shared, locals, devices, log, timing, fate>>

(* ------------------------------ helpers ------------------------------- *)
Max(x, y) == IF x >= y THEN x ELSE y
Min(x, y) == IF x <= y THEN x ELSE y
Range(s) == {s[i] : i \in 1..Len(s)}

\* log entries: <<kind, name, value>>
Hw(name, v) == <<"hw", name, v>>
Wr(name, v) == <<"write", name, v>>
Nap(name, v) == <<"sleep", name, v>>
Rd(name, v) == <<"read", name, v>>
\* a device operation issued between the lock and the unlock of mutex m
HwIn(m, name, v) == <<"hw", name, v, m>>
BoolInt(b) == IF b THEN 1 ELSE 0

Goto(t, l) == pc' = [pc EXCEPT ![t] = l]
Append1(t, es) == log' = [log EXCEPT ![t] = @ \o es]
\* a loop that repeats the same entries is logged once
AppendOnce(t, es) ==
  log' = [log EXCEPT ![t] = IF \A i \in 1..Len(es) : es[i] \in Range(@) THEN @ ELSE @ \o es]

\* mutant: the caller goes on without the mutex
Lock_no_hold(t, m, at, l) ==
  /\ pc[t] = at
  /\ Goto(t, l)
  /\ UNCHANGED <<owner, shared, locals, devices, log, timing, fate>>

\* pthread_mutex_lock(m) by t, then continue at l
Lock(t, m, at, l) ==
  /\ pc[t] = at
  /\ owner[m] = "none"
  /\ owner' = [owner EXCEPT ![m] = t]
  /\ Goto(t, l)
  /\ UNCHANGED <<shared, locals, devices, log, timing, fate>>

\* pthread_mutex_unlock(m)
Unlock(m) == owner' = [owner EXCEPT ![m] = "none"]

\* a usleep(us) is about to begin: if Close is already set, the caller cannot
\* exit before us microseconds have passed
BeginUsleep(t, us) ==
  stall' = [stall EXCEPT ![t] = IF close THEN Max(@, us) ELSE @]

\* the end-of-period clock_nanosleep returns; the log of the tick ends here
EndPeriod(t) ==
  /\ pc[t] = "sleep"
  /\ Goto(t, "test")
  /\ naps' = [naps EXCEPT ![t] = IF close THEN Min(@ + 1, MaxNaps) ELSE @]
  /\ log' = [log EXCEPT ![t] = <<Nap("clock_nanosleep", Period(t))>>]
  /\ seen' = IF t \in Axes THEN [seen EXCEPT ![t] = {}] ELSE seen
  /\ UNCHANGED <<owner, shared, locals, devices, stall, failed, stage, held_toggles, stale, unserved>>

\* The activities are run a few at a time: a behaviour schedules the activities
\* of one scenario, the others have not run yet
Scenarios == {"rotation", "elevation", "claw", "leds"}

TypeOK ==
  /\ pc \in [Threads -> STRING]
  /\ owner \in [Mutexes -> Threads \cup {"none"}]
  /\ close \in BOOLEAN
  /\ correction_in_progress \in BOOLEAN

\* the state in which main.c:585-597 creates the activities: calibration has
\* left every motor at duty 0 in run-direct mode (main.c:728-730, 767-769,
\* 800-802), main.c:579-582 has set the neutral Intent
Start ==
  /\ pc = [t \in Threads |-> "test"]
  /\ owner = [m \in Mutexes |-> "none"]
  /\ new_motors_status = [rotation |-> "ROTATE_STOP", elevation |-> "ELEVATE_STOP", claw |-> "INACTIVE"]
  /\ limit_reached = [a \in Axes |-> FALSE]
  /\ correction_in_progress = FALSE
  /\ claw_used_status = FALSE
  /\ close = FALSE
  /\ axis_actual = [rotation |-> "ROTATE_STOP", elevation |-> "ELEVATE_STOP"]
  /\ axis_next = [rotation |-> "ROTATE_STOP", elevation |-> "ELEVATE_STOP"]
  /\ recovery = [a \in Axes |-> "none"]
  /\ claw_open = TRUE
  /\ claw_status = "INACTIVE"
  /\ previous = FALSE
  /\ back_read = FALSE
  /\ duty_cycle_sp = [m \in Motors |-> 0]
  /\ position_sp = [rotation |-> ROTATION_INIT_UNITS, elevation |-> ELEVATION_INIT_UNITS, claw |-> CLAW_INIT_UNITS]
  /\ command = [m \in Motors |-> "run-direct"]
  /\ led = "default"
  /\ lcd = "blank"
  /\ log = [t \in Threads |-> <<>>]
  /\ naps = [t \in Threads |-> 0]
  /\ stall = [t \in Threads |-> 0]
  /\ failed = "none"
  /\ main = "join"
  /\ main_i = 0
  /\ mutex_state = [m \in Mutexes |-> "ready"]
  /\ held_toggles = 0
  /\ seen = [a \in Axes |-> {"first"}]
  /\ stale = [a \in Axes |-> FALSE]
  /\ unserved = FALSE

\* main.c:585-597, 600-607: the order of the pthread_create and pthread_join calls
CreationOrder ==
  <<"buttons", "color", "touch", "rotation", "elevation", "claw", "leds", "reporter">>
\* main.c:634-653: the order in which main parks the motors
ParkOrder == <<"rotation", "elevation", "claw">>

\* the state at main.c:551, before the mutexes are initialised: no activity
\* exists, the observables are zero-initialised statics (main.c:119-174), so
\* the booleans are false and each Intent field is the first constant of its
\* enum (main.c:104-110)
Boot ==
  /\ scenario = "main"
  /\ main = "mutex_init"
  /\ main_i = 0
  /\ mutex_state = [m \in Mutexes |-> "raw"]
  /\ pc = [t \in Threads |-> "unborn"]
  /\ owner = [m \in Mutexes |-> "none"]
  /\ new_motors_status = [rotation |-> "ROTATE_RIGHT", elevation |-> "RISE", claw |-> "ACTIVE"]
  /\ limit_reached = [a \in Axes |-> FALSE]
  /\ correction_in_progress = FALSE
  /\ claw_used_status = FALSE
  /\ close = FALSE
  /\ axis_actual = [rotation |-> "ROTATE_STOP", elevation |-> "ELEVATE_STOP"]
  /\ axis_next = [rotation |-> "ROTATE_STOP", elevation |-> "ELEVATE_STOP"]
  /\ recovery = [a \in Axes |-> "none"]
  /\ claw_open = TRUE
  /\ claw_status = "INACTIVE"
  /\ previous = FALSE
  /\ back_read = FALSE
  /\ duty_cycle_sp = [m \in Motors |-> 0]
  /\ position_sp = [rotation |-> ROTATION_INIT_UNITS, elevation |-> ELEVATION_INIT_UNITS, claw |-> CLAW_INIT_UNITS]
  /\ command = [m \in Motors |-> "run-direct"]
  /\ led = "default"
  /\ lcd = "blank"
  /\ log = [t \in Threads |-> <<>>]
  /\ naps = [t \in Threads |-> 0]
  /\ stall = [t \in Threads |-> 0]
  /\ failed = "none"
  /\ held_toggles = 0
  /\ seen = [a \in Axes |-> {"first"}]
  /\ stale = [a \in Axes |-> FALSE]
  /\ unserved = FALSE

Init ==
  \/ Start /\ scenario \in Scenarios
  \/ Boot
InitAxes == Start /\ scenario = "axes"
InitFaulty == Start /\ scenario = "faulty"
InitLive == Start /\ scenario = "live"
InitButtons == Start /\ scenario = "buttons"
InitPair == Start /\ scenario = "pair"
InitShutdown == Start /\ scenario \in {"stop_rotation", "stop_elevation", "stop_claw"}

(* ------------------- is_close_pressed and the loop test ---------------- *)
\* main.c:673  pthread_mutex_lock(&close_condition.close_mutex)
is_close_pressed_lock(t) == Lock(t, "close", "test", "test_cs")

\* mutant: the loop test works on a value that never shows Close
close_pressed_stale == FALSE

\* main.c:674  close_pressed = close_condition.close
close_pressed_value == close

\* mutant: a motor controller cuts its motor's power on the way out
loop_exit_parks(t) ==
  /\ Goto(t, "done")
  /\ duty_cycle_sp' = IF t \in Motors THEN [duty_cycle_sp EXCEPT ![t] = 0] ELSE duty_cycle_sp
  /\ log' = IF t \in Motors THEN [log EXCEPT ![t] = @ \o <<Hw("ev3_set_duty_cycle_sp", 0)>>] ELSE log
  /\ UNCHANGED <<shared, locals, position_sp, command, led, lcd, timing, fate>>

\* mutant: a motor controller stops its motor on the way out
loop_exit_stops(t) ==
  /\ Goto(t, "done")
  /\ command' = IF t \in Motors THEN [command EXCEPT ![t] = "stop"] ELSE command
  /\ log' = IF t \in Motors THEN [log EXCEPT ![t] = @ \o <<Hw("stop", 0)>>] ELSE log
  /\ UNCHANGED <<shared, locals, duty_cycle_sp, position_sp, led, lcd, timing, fate>>

\* pthread_exit(NULL) after the loop: the activity ends and touches nothing else
loop_exit(t) ==
  /\ Goto(t, "done")
  /\ UNCHANGED <<shared, locals, devices, log, timing, fate>>

\* main.c:674-676 and the while (!is_close_pressed()) test of activity t, whose
\* loop body starts at `body`
loop_test(t, body) ==
  /\ pc[t] = "test_cs"
  /\ Unlock("close")
  /\ IF close_pressed_value
       THEN loop_exit(t)
       ELSE /\ Goto(t, body)
            /\ log' = [log EXCEPT ![t] = <<>>]
            /\ UNCHANGED <<shared, locals, devices, timing, fate>>

(* --------------------------- buttons_controller ------------------------ *)
\* the keys read pressed in one tick, as one number
KeyBit(k) ==
  CASE k = "LEFT" -> 1 [] k = "RIGHT" -> 2 [] k = "UP" -> 4 [] k = "DOWN" -> 8 [] k = "CENTER" -> 16
RECURSIVE KeyMask(_)
KeyMask(pressed) ==
  IF pressed = {} THEN 0
  ELSE LET k == CHOOSE x \in pressed : TRUE IN KeyBit(k) + KeyMask(pressed \ {k})

\* mutant: LEFT wins over RIGHT, UP over DOWN
IntentOf_first_wins(pressed) ==
  [rotation |-> IF "LEFT" \in pressed THEN "ROTATE_LEFT"
                ELSE IF "RIGHT" \in pressed THEN "ROTATE_RIGHT" ELSE "ROTATE_STOP",
   elevation |-> IF "UP" \in pressed THEN "RISE"
                 ELSE IF "DOWN" \in pressed THEN "LOWER" ELSE "ELEVATE_STOP",
   claw |-> IF "CENTER" \in pressed THEN "ACTIVE" ELSE "INACTIVE"]

\* main.c:816-846: the Intent computed from the keys read pressed
IntentOf(pressed) ==
  [rotation |-> IF "LEFT" \in pressed
                  THEN (IF "RIGHT" \in pressed THEN "ROTATE_STOP" ELSE "ROTATE_LEFT")
                  ELSE (IF "RIGHT" \in pressed THEN "ROTATE_RIGHT" ELSE "ROTATE_STOP"),
   elevation |-> IF "UP" \in pressed
                   THEN (IF "DOWN" \in pressed THEN "ELEVATE_STOP" ELSE "RISE")
                   ELSE (IF "DOWN" \in pressed THEN "LOWER" ELSE "ELEVATE_STOP"),
   claw |-> IF "CENTER" \in pressed THEN "ACTIVE" ELSE "INACTIVE"]

\* main.c:814
buttons_lock_motors == Lock("buttons", "motors", "lock_motors", "publish")

\* mutant: the Intent mutex is still held when the Close mutex is locked
buttons_publish_keeps_lock(keys) ==
  /\ pc["buttons"] = "publish"
  /\ \E pressed \in SUBSET keys :
       /\ new_motors_status' = IntentOf(pressed)
       /\ held_toggles' = IF "CENTER" \in pressed THEN held_toggles ELSE 0
       /\ unserved' = ("CENTER" \in pressed)
       /\ Append1("buttons", <<HwIn("motors", "ev3_button_pressed", KeyMask(pressed)),
                               Wr("new_motors_status", 0)>>)
  /\ Goto("buttons", "lock_close")
  /\ UNCHANGED <<owner, limit_reached, correction_in_progress, claw_used_status, close,
                 locals, devices, timing, failed, stage, seen, stale>>

\* main.c:816-848: read the five keys and write the three fields, mutex held
buttons_publish(keys) ==
  /\ pc["buttons"] = "publish"
  /\ \E pressed \in SUBSET keys :
       /\ new_motors_status' = IntentOf(pressed)
       /\ held_toggles' = IF "CENTER" \in pressed THEN held_toggles ELSE 0
       /\ unserved' = ("CENTER" \in pressed)
       /\ Append1("buttons", <<HwIn("motors", "ev3_button_pressed", KeyMask(pressed)),
                               Wr("new_motors_status", 0)>>)
  /\ Unlock("motors")
  /\ Goto("buttons", "lock_close")
  /\ UNCHANGED <<limit_reached, correction_in_progress, claw_used_status, close,
                 locals, devices, timing, failed, stage, seen, stale>>

\* main.c:851
buttons_lock_close == Lock("buttons", "close", "lock_close", "cancel")

\* mutant: Close is written true whatever Back reads
cancel_value_always(back) == TRUE

\* main.c:853: the value written to close_condition.close when Back is read pressed
cancel_value(back) == IF back THEN TRUE ELSE close

\* main.c:852-855: read Back, latch Close, mutex held
buttons_cancel ==
  /\ pc["buttons"] = "cancel"
  /\ \E back \in BOOLEAN :
       /\ back_read' = back
       /\ close' = cancel_value(back)
       /\ Append1("buttons", <<HwIn("close", "ev3_button_pressed", BoolInt(back))>>
                              \o (IF back THEN <<Wr("close", 1)>> ELSE <<>>))
  /\ Unlock("close")
  /\ Goto("buttons", "sleep")
  /\ UNCHANGED <<new_motors_status, limit_reached, correction_in_progress, claw_used_status,
                 axis_actual, axis_next, recovery, claw_open, claw_status, previous,
                 devices, timing, fate>>

\* main.c:807-860
buttons_controller(keys) ==
  \/ is_close_pressed_lock("buttons")
  \/ loop_test("buttons", "lock_motors")
  \/ buttons_lock_motors
  \/ buttons_publish(keys)
  \/ buttons_lock_close
  \/ buttons_cancel
  \/ EndPeriod("buttons")

(* ------------- color_sensor_controller, touch_sensor_controller -------- *)
\* mutant: the reflectance just under the limit counts as over it
OverLimit_low(a, v) == IF a = "rotation" THEN v = TOUCH_SENSOR_ACTIVE ELSE v >= REFLECTION_LIMIT - 1

\* main.c:873 / main.c:897: the reading is over the limit / the switch is closed
OverLimit(a, v) == IF a = "rotation" THEN v = TOUCH_SENSOR_ACTIVE ELSE v >= REFLECTION_LIMIT

\* main.c:871-873 / 895-897: update the sensor, read val_data[0], compare.
\* The return value of ev3_update_sensor_val is not looked at: an error
\* outcome changes nothing in what the sampler does next.
sampler_sense(a, outcomes) ==
  LET t == SamplerOf(a) IN
  /\ pc[t] = "sense"
  /\ \E v \in SensorReadings(a), o \in outcomes :
       /\ Goto(t, IF OverLimit(a, v) THEN "lock_limit" ELSE "sleep")
       /\ failed' = IF o = "error" /\ failed = "none" THEN t ELSE failed
       /\ Append1(t, <<Hw("ev3_update_sensor_val", v)>>)
  /\ UNCHANGED <<owner, shared, locals, devices, timing, stage, ghosts>>

\* main.c:874 / 898
sampler_lock_limit(a) == Lock(SamplerOf(a), LimitMutex(a), "lock_limit", "set_limit")

\* main.c:875-876 / 899-900
sampler_set_limit(a) ==
  LET t == SamplerOf(a) IN
  /\ pc[t] = "set_limit"
  /\ limit_reached' = [limit_reached EXCEPT ![a] = TRUE]
  /\ Unlock(LimitMutex(a))
  /\ Goto(t, "sleep")
  /\ Append1(t, <<Wr("limit_reached", 1)>>)
  /\ stale' = [stale EXCEPT ![a] = FALSE]
  /\ UNCHANGED <<new_motors_status, correction_in_progress, claw_used_status, close,
                 locals, devices, timing, failed, stage, held_toggles, seen, unserved>>

sampler(a, outcomes) ==
  \/ is_close_pressed_lock(SamplerOf(a))
  \/ loop_test(SamplerOf(a), "sense")
  \/ sampler_sense(a, outcomes)
  \/ sampler_lock_limit(a)
  \/ sampler_set_limit(a)
  \/ EndPeriod(SamplerOf(a))

\* main.c:862-883
color_sensor_controller(outcomes) == sampler("elevation", outcomes)
\* main.c:885-907
touch_sensor_controller(outcomes) == sampler("rotation", outcomes)

(* ------- rotation_motor_controller, elevation_motor_controller --------- *)
\* mutant: the two directions of rotation are exchanged
RotationPower_reversed(action) ==
  CASE action = "ROTATE_RIGHT" -> -ROTATION_POWER
    [] action = "ROTATE_LEFT" -> ROTATION_POWER
    [] OTHER -> 0
\* main.c:969-979 / 1050-1060: the duty cycle of an action
RotationPower(action) ==
  CASE action = "ROTATE_RIGHT" -> ROTATION_POWER
    [] action = "ROTATE_LEFT" -> -ROTATION_POWER
    [] OTHER -> 0
\* mutant: lowering uses the rotation power
ElevationPower_rotation(action) ==
  CASE action = "RISE" -> ELEVATION_UP_POWER
    [] action = "LOWER" -> ROTATION_POWER
    [] OTHER -> 0
ElevationPower(action) ==
  CASE action = "RISE" -> ELEVATION_UP_POWER
    [] action = "LOWER" -> ELEVATION_DOWN_POWER
    [] OTHER -> 0
Power(a, action) == IF a = "rotation" THEN RotationPower(action) ELSE ElevationPower(action)

StopAction(a) == IF a = "rotation" THEN "ROTATE_STOP" ELSE "ELEVATE_STOP"
\* mutant: each axis backs off by the other axis's offset
InitUnits_swapped(a) == IF a = "rotation" THEN ELEVATION_INIT_UNITS ELSE ROTATION_INIT_UNITS
\* main.c:928 / 1009: the relative recovery offset
InitUnits(a) == IF a = "rotation" THEN ROTATION_INIT_UNITS ELSE ELEVATION_INIT_UNITS
\* main.c:948 / 1029: the encoder position is beyond the soft limit
BeyondSoftLimit(a, p) == IF a = "rotation" THEN p < TOP_LEFT_POS ELSE p > TOP_BOTTOM_POS

\* main.c:920 / 1001
axis_lock_motors(a) == Lock(a, "motors", "lock_motors", "read_intent")

\* main.c:921-922 / 1002-1003
axis_read_intent(a) ==
  /\ pc[a] = "read_intent"
  /\ axis_next' = [axis_next EXCEPT ![a] = new_motors_status[a]]
  /\ Unlock("motors")
  /\ Goto(a, "lock_limit")
  /\ seen' = [seen EXCEPT ![a] =
               IF /\ "first" \notin seen[a]
                  /\ new_motors_status[a] = axis_next[a]
                  /\ axis_actual[a] = axis_next[a]
                 THEN {"steady"} ELSE {}]
  /\ UNCHANGED <<shared, axis_actual, recovery, claw_open, claw_status, previous, back_read,
                 devices, log, timing, failed, stage, held_toggles, stale, unserved>>

\* main.c:680 / 688
axis_lock_limit(a) == Lock(a, LimitMutex(a), "lock_limit", "read_limit")

\* mutant: the duty cycle is commanded at every tick without recovery
Branch_always_drives(a, flag, p) ==
  IF flag THEN "rel"
  ELSE IF BeyondSoftLimit(a, p) THEN "abs"
  ELSE "drive"

\* mutant: the two recoveries are exchanged
Branch_swapped(a, flag, p) ==
  IF flag THEN "abs"
  ELSE IF BeyondSoftLimit(a, p) THEN "rel"
  ELSE IF axis_actual[a] # axis_next[a] THEN "drive"
  ELSE "idle"

\* mutant: the soft limit is tested before the limit flag
Branch_soft_first(a, flag, p) ==
  IF BeyondSoftLimit(a, p) THEN "abs"
  ELSE IF flag THEN "rel"
  ELSE IF axis_actual[a] # axis_next[a] THEN "drive"
  ELSE "idle"

\* main.c:924, 948, 968 / 1005, 1029, 1049: which branch of the if-chain is
\* taken, given the flag read and the position the encoder would report
Branch(a, flag, p) ==
  IF flag THEN "rel"
  ELSE IF BeyondSoftLimit(a, p) THEN "abs"
  ELSE IF axis_actual[a] # axis_next[a] THEN "drive"
  ELSE "idle"

\* main.c:681-683 (688-691), then the if-chain of main.c:924-981 (1005-1062)
\* up to its first lock or sleep.  ev3_get_position is called only when the
\* flag was read false.
axis_read_limit(a) ==
  /\ pc[a] = "read_limit"
  /\ Unlock(LimitMutex(a))
  /\ \E p \in Positions(a) :
       LET b == Branch(a, limit_reached[a], p) IN
       /\ recovery' = [recovery EXCEPT ![a] = IF b \in {"rel", "abs"} THEN b ELSE "none"]
       /\ Goto(a, IF b \in {"rel", "abs"} THEN "lock_corr_on" ELSE "sleep")
       /\ duty_cycle_sp' = IF b = "drive"
                             THEN [duty_cycle_sp EXCEPT ![a] = Power(a, axis_next[a])]
                             ELSE duty_cycle_sp
       /\ axis_actual' = IF b = "drive"
                           THEN [axis_actual EXCEPT ![a] = axis_next[a]]
                           ELSE axis_actual
       /\ Append1(a, <<Rd("limit_reached", BoolInt(limit_reached[a]))>>
                     \o (IF limit_reached[a] THEN <<>> ELSE
                          <<Hw("ev3_get_position", BoolInt(BeyondSoftLimit(a, p)))>>)
                     \o (IF b = "drive"
                           THEN <<Hw("ev3_set_duty_cycle_sp", Power(a, axis_next[a]))>>
                           ELSE <<>>))
  /\ UNCHANGED <<shared, axis_next, claw_open, claw_status, previous, back_read,
                 position_sp, command, led, lcd, timing, fate>>

\* main.c:925, 949 / 1006, 1030
axis_lock_corr_on(a) == Lock(a, "correction", "lock_corr_on", "corr_on")

\* main.c:926-930, 950-954 / 1007-1011, 1031-1037: raise the flag, issue the
\* positioned command, begin the settle delay
axis_corr_on(a) ==
  LET sp == IF recovery[a] = "rel" THEN InitUnits(a) ELSE 0
      cmd == IF recovery[a] = "rel" THEN "run-to-rel-pos" ELSE "run-to-abs-pos" IN
  /\ pc[a] = "corr_on"
  /\ correction_in_progress' = TRUE
  /\ Unlock("correction")
  /\ position_sp' = [position_sp EXCEPT ![a] = sp]
  /\ command' = [command EXCEPT ![a] = cmd]
  /\ Goto(a, "settle")
  /\ BeginUsleep(a, SUSPENSION_TIME)
  /\ Append1(a, <<Wr("correction_in_progress", 1), Hw("ev3_set_position_sp", sp), Hw(cmd, 0)>>)
  /\ UNCHANGED <<new_motors_status, limit_reached, claw_used_status, close, locals,
                 duty_cycle_sp, led, lcd, naps, fate>>

\* main.c:930, 954 / 1011, 1037: usleep(SUSPENSION_TIME) returns
axis_settle(a) ==
  /\ pc[a] = "settle"
  /\ Goto(a, "poll")
  /\ Append1(a, <<Nap("usleep", SUSPENSION_TIME)>>)
  /\ UNCHANGED <<owner, shared, locals, devices, timing, fate>>

\* main.c:932, 956 / 1013, 1038: ev3_motor_state(...) & MOTOR_RUNNING.  When
\* the motor is not running, the absolute recovery goes on with
\* main.c:960-962 (1042-1044); the relative one locks the limit flag first.
axis_poll(a) ==
  /\ pc[a] = "poll"
  /\ \E running \in BOOLEAN :
       LET stop == ~running /\ recovery[a] = "abs" IN
       /\ Goto(a, IF running THEN "poll_sleep"
                  ELSE IF recovery[a] = "rel" THEN "lock_clear" ELSE "lock_corr_off")
       /\ IF running THEN BeginUsleep(a, CHECK_STATE_TIME) ELSE UNCHANGED stall
       /\ duty_cycle_sp' = IF stop THEN [duty_cycle_sp EXCEPT ![a] = 0] ELSE duty_cycle_sp
       /\ command' = IF stop THEN [command EXCEPT ![a] = "run-direct"] ELSE command
       /\ axis_actual' = IF stop THEN [axis_actual EXCEPT ![a] = StopAction(a)] ELSE axis_actual
       /\ AppendOnce(a, <<Hw("ev3_motor_state", BoolInt(running))>>
                        \o (IF stop THEN <<Hw("ev3_set_duty_cycle_sp", 0), Hw("run-direct", 0)>>
                            ELSE <<>>))
  /\ UNCHANGED <<owner, shared, axis_next, recovery, claw_open, claw_status, previous, back_read,
                 position_sp, led, lcd, naps, fate>>

\* main.c:933, 957 / 1014, 1039: usleep(CHECK_STATE_TIME) returns
axis_poll_sleep(a) ==
  /\ pc[a] = "poll_sleep"
  /\ Goto(a, "poll")
  /\ AppendOnce(a, <<Nap("usleep", CHECK_STATE_TIME)>>)
  /\ UNCHANGED <<owner, shared, locals, devices, timing, fate>>

\* main.c:936 / 1017
axis_lock_clear(a) == Lock(a, LimitMutex(a), "lock_clear", "clear")

\* mutant: the relative recovery ends without the run-direct command
axis_clear_no_run_direct(a) ==
  /\ pc[a] = "clear"
  /\ limit_reached' = [limit_reached EXCEPT ![a] = FALSE]
  /\ Unlock(LimitMutex(a))
  /\ duty_cycle_sp' = [duty_cycle_sp EXCEPT ![a] = 0]
  /\ axis_actual' = [axis_actual EXCEPT ![a] = StopAction(a)]
  /\ Goto(a, "lock_corr_off")
  /\ Append1(a, <<Wr("limit_reached", 0), Hw("ev3_set_duty_cycle_sp", 0)>>)
  /\ stale' = [stale EXCEPT ![a] = @ \/ pc[SamplerOf(a)] = "lock_limit"]
  /\ UNCHANGED <<new_motors_status, correction_in_progress, claw_used_status, close,
                 axis_next, recovery, claw_open, claw_status, previous, back_read,
                 position_sp, command, led, lcd, timing, failed, stage, held_toggles, seen,
                 unserved>>

\* main.c:937-942 / 1018-1023: clear the limit flag, cut the power
axis_clear(a) ==
  /\ pc[a] = "clear"
  /\ limit_reached' = [limit_reached EXCEPT ![a] = FALSE]
  /\ Unlock(LimitMutex(a))
  /\ duty_cycle_sp' = [duty_cycle_sp EXCEPT ![a] = 0]
  /\ command' = [command EXCEPT ![a] = "run-direct"]
  /\ axis_actual' = [axis_actual EXCEPT ![a] = StopAction(a)]
  /\ Goto(a, "lock_corr_off")
  /\ Append1(a, <<Wr("limit_reached", 0), Hw("ev3_set_duty_cycle_sp", 0), Hw("run-direct", 0)>>)
  /\ stale' = [stale EXCEPT ![a] = @ \/ pc[SamplerOf(a)] = "lock_limit"]
  /\ UNCHANGED <<new_motors_status, correction_in_progress, claw_used_status, close,
                 axis_next, recovery, claw_open, claw_status, previous, back_read,
                 position_sp, led, lcd, timing, failed, stage, held_toggles, seen, unserved>>

\* main.c:944, 964 / 1025, 1045
axis_lock_corr_off(a) == Lock(a, "correction", "lock_corr_off", "corr_off")

\* mutant: the flag is left as it is at the end of a recovery
axis_corr_off_keeps(a) ==
  /\ pc[a] = "corr_off"
  /\ Unlock("correction")
  /\ recovery' = [recovery EXCEPT ![a] = "none"]
  /\ Goto(a, "sleep")
  /\ Append1(a, <<Wr("correction_in_progress", 0)>>)
  /\ UNCHANGED <<shared, axis_actual, axis_next, claw_open, claw_status, previous, back_read,
                 devices, timing, fate>>

\* main.c:945-946, 965-966 / 1026-1027, 1046-1047
axis_corr_off(a) ==
  /\ pc[a] = "corr_off"
  /\ correction_in_progress' = FALSE
  /\ Unlock("correction")
  /\ recovery' = [recovery EXCEPT ![a] = "none"]
  /\ Goto(a, "sleep")
  /\ Append1(a, <<Wr("correction_in_progress", 0)>>)
  /\ UNCHANGED <<new_motors_status, limit_reached, claw_used_status, close,
                 axis_actual, axis_next, claw_open, claw_status, previous, back_read,
                 devices, timing, fate>>

axis_controller(a) ==
  \/ is_close_pressed_lock(a)
  \/ loop_test(a, "lock_motors")
  \/ axis_lock_motors(a)
  \/ axis_read_intent(a)
  \/ axis_lock_limit(a)
  \/ axis_read_limit(a)
  \/ axis_lock_corr_on(a)
  \/ axis_corr_on(a)
  \/ axis_settle(a)
  \/ axis_poll(a)
  \/ axis_poll_sleep(a)
  \/ axis_lock_clear(a)
  \/ axis_clear(a)
  \/ axis_lock_corr_off(a)
  \/ axis_corr_off(a)
  \/ EndPeriod(a)

\* main.c:909-987
rotation_motor_controller == axis_controller("rotation")
\* main.c:989-1068
elevation_motor_controller == axis_controller("elevation")

(* -------------------------- claw_motor_controller ---------------------- *)
\* main.c:1081
claw_lock_motors == Lock("claw", "motors", "lock_motors", "read_intent")

\* main.c:1082-1091, 1097-1099: snapshot Intent.claw; on ACTIVE start the
\* closing (claw open) or the opening (claw closed), up to the first usleep
claw_read_intent ==
  LET active == new_motors_status.claw = "ACTIVE"
      closing == active /\ claw_open
      opening == active /\ ~claw_open IN
  /\ pc["claw"] = "read_intent"
  /\ claw_status' = new_motors_status.claw
  /\ Unlock("motors")
  /\ Goto("claw", IF closing THEN "closing" ELSE IF opening THEN "settle" ELSE "sleep")
  /\ duty_cycle_sp' = IF closing THEN [duty_cycle_sp EXCEPT !["claw"] = -CLAW_POWER]
                      ELSE duty_cycle_sp
  /\ position_sp' = IF opening THEN [position_sp EXCEPT !["claw"] = 0] ELSE position_sp
  /\ command' = IF closing THEN [command EXCEPT !["claw"] = "run-direct"]
                ELSE IF opening THEN [command EXCEPT !["claw"] = "run-to-abs-pos"]
                ELSE command
  /\ claw_open' = IF closing THEN FALSE ELSE claw_open
  /\ IF closing THEN BeginUsleep("claw", CLAW_CLOSE_TIME)
     ELSE IF opening THEN BeginUsleep("claw", SUSPENSION_TIME)
     ELSE UNCHANGED stall
  /\ Append1("claw",
       IF closing THEN <<Hw("ev3_set_duty_cycle_sp", -CLAW_POWER), Hw("run-direct", 0)>>
       ELSE IF opening THEN <<Hw("ev3_set_position_sp", 0), Hw("run-to-abs-pos", 0)>>
       ELSE <<>>)
  /\ held_toggles' = IF active THEN Min(held_toggles + 1, MaxHeldToggles) ELSE held_toggles
  /\ unserved' = FALSE
  /\ UNCHANGED <<shared, axis_actual, axis_next, recovery, previous, back_read,
                 led, lcd, naps, failed, stage, seen, stale>>

\* main.c:1091-1092: usleep(CLAW_CLOSE_TIME) returns, the power is cut
claw_closing ==
  /\ pc["claw"] = "closing"
  /\ duty_cycle_sp' = [duty_cycle_sp EXCEPT !["claw"] = 0]
  /\ Goto("claw", "lock_closed")
  /\ Append1("claw", <<Nap("usleep", CLAW_CLOSE_TIME), Hw("ev3_set_duty_cycle_sp", 0)>>)
  /\ UNCHANGED <<owner, shared, locals, position_sp, command, led, lcd, timing, fate>>

\* main.c:1099: usleep(SUSPENSION_TIME) returns
claw_settle ==
  /\ pc["claw"] = "settle"
  /\ Goto("claw", "poll")
  /\ Append1("claw", <<Nap("usleep", SUSPENSION_TIME)>>)
  /\ UNCHANGED <<owner, shared, locals, devices, timing, fate>>

\* main.c:1101, then 1105-1107 once the motor is not running
claw_poll ==
  /\ pc["claw"] = "poll"
  /\ \E running \in BOOLEAN :
       /\ Goto("claw", IF running THEN "poll_sleep" ELSE "lock_opened")
       /\ IF running THEN BeginUsleep("claw", CHECK_STATE_TIME) ELSE UNCHANGED stall
       /\ duty_cycle_sp' = IF running THEN duty_cycle_sp ELSE [duty_cycle_sp EXCEPT !["claw"] = 0]
       /\ command' = IF running THEN command ELSE [command EXCEPT !["claw"] = "run-direct"]
       /\ claw_open' = IF running THEN claw_open ELSE TRUE
       /\ AppendOnce("claw", <<Hw("ev3_motor_state", BoolInt(running))>>
                        \o (IF running THEN <<>>
                            ELSE <<Hw("ev3_set_duty_cycle_sp", 0), Hw("run-direct", 0)>>))
  /\ UNCHANGED <<owner, shared, axis_actual, axis_next, recovery, claw_status, previous,
                 back_read, position_sp, led, lcd, naps, fate>>

\* main.c:1102: usleep(CHECK_STATE_TIME) returns
claw_poll_sleep ==
  /\ pc["claw"] = "poll_sleep"
  /\ Goto("claw", "poll")
  /\ AppendOnce("claw", <<Nap("usleep", CHECK_STATE_TIME)>>)
  /\ UNCHANGED <<owner, shared, locals, devices, timing, fate>>

\* main.c:1093 / 1108
claw_lock_closed == Lock("claw", "claw_used", "lock_closed", "set_closed")
claw_lock_opened == Lock("claw", "claw_used", "lock_opened", "set_opened")

\* mutant: ClawClosed is not written
claw_set_used_skips(at, value) ==
  /\ pc["claw"] = at
  /\ Unlock("claw_used")
  /\ Goto("claw", "lock_ack")
  /\ UNCHANGED <<shared, locals, devices, log, timing, fate>>

\* mutant: ClawClosed is written true after an opening too
claw_set_used_closed(at, value) ==
  /\ pc["claw"] = at
  /\ claw_used_status' = TRUE
  /\ Unlock("claw_used")
  /\ Goto("claw", "lock_ack")
  /\ Append1("claw", <<Wr("claw_used", 1)>>)
  /\ UNCHANGED <<new_motors_status, limit_reached, correction_in_progress, close,
                 locals, devices, timing, fate>>

\* main.c:1094-1095 (status = true) / 1109-1110 (status = false)
claw_set_used(at, value) ==
  /\ pc["claw"] = at
  /\ claw_used_status' = value
  /\ Unlock("claw_used")
  /\ Goto("claw", "lock_ack")
  /\ Append1("claw", <<Wr("claw_used", BoolInt(value))>>)
  /\ UNCHANGED <<new_motors_status, limit_reached, correction_in_progress, close,
                 locals, devices, timing, fate>>

\* main.c:1112
claw_lock_ack == Lock("claw", "motors", "lock_ack", "ack")

\* mutant: the acknowledgement resets the whole Intent
claw_ack_clears_all ==
  /\ pc["claw"] = "ack"
  /\ new_motors_status' = [rotation |-> "ROTATE_STOP", elevation |-> "ELEVATE_STOP", claw |-> "INACTIVE"]
  /\ Unlock("motors")
  /\ Goto("claw", "sleep")
  /\ Append1("claw", <<Wr("new_motors_status", 0)>>)
  /\ unserved' = FALSE
  /\ UNCHANGED <<limit_reached, correction_in_progress, claw_used_status, close,
                 locals, devices, timing, failed, stage, held_toggles, seen, stale>>

\* main.c:1113-1114
claw_ack ==
  /\ pc["claw"] = "ack"
  /\ new_motors_status' = [new_motors_status EXCEPT !.claw = "INACTIVE"]
  /\ Unlock("motors")
  /\ Goto("claw", "sleep")
  /\ Append1("claw", <<Wr("new_motors_status.claw", 0)>>)
  /\ unserved' = FALSE
  /\ UNCHANGED <<limit_reached, correction_in_progress, claw_used_status, close,
                 locals, devices, timing, failed, stage, held_toggles, seen, stale>>

\* main.c:1070-1120
claw_motor_controller ==
  \/ is_close_pressed_lock("claw")
  \/ loop_test("claw", "lock_motors")
  \/ claw_lock_motors
  \/ claw_read_intent
  \/ claw_closing
  \/ claw_settle
  \/ claw_poll
  \/ claw_poll_sleep
  \/ claw_lock_closed
  \/ claw_set_used("set_closed", TRUE)
  \/ claw_lock_opened
  \/ claw_set_used("set_opened", FALSE)
  \/ claw_lock_ack
  \/ claw_ack
  \/ EndPeriod("claw")

(* ------------------------------ leds_controller ------------------------ *)
\* main.c:1131
leds_lock_corr == Lock("leds", "correction", "lock_corr", "read_corr")

\* mutant: the falling edge writes nothing
led_colour_stays_red(actual, prev, cur) ==
  IF actual /\ ~prev THEN "red" ELSE cur

\* main.c:1134-1146: the colour the LEDs show after a tick that read `actual`,
\* when the previous tick had read `prev` and the LEDs showed `cur`
led_colour(actual, prev, cur) ==
  IF actual /\ ~prev THEN "red"
  ELSE IF ~actual /\ prev THEN "green" ELSE cur

\* main.c:1132-1146: snapshot the flag, write the LEDs on a change
leds_read_corr ==
  LET actual == correction_in_progress IN
  /\ pc["leds"] = "read_corr"
  /\ Unlock("correction")
  /\ led' = led_colour(actual, previous, led)
  /\ previous' = IF actual /\ ~previous THEN TRUE
                 ELSE IF ~actual /\ previous THEN FALSE ELSE previous
  /\ Goto("leds", "sleep")
  /\ Append1("leds", IF actual # previous THEN <<Hw("ev3_set_led", BoolInt(actual))>> ELSE <<>>)
  /\ UNCHANGED <<shared, axis_actual, axis_next, recovery, claw_open, claw_status, back_read,
                 duty_cycle_sp, position_sp, command, lcd, timing, fate>>

\* main.c:1122-1151
leds_controller ==
  \/ is_close_pressed_lock("leds")
  \/ loop_test("leds", "lock_corr")
  \/ leds_lock_corr
  \/ leds_read_corr
  \/ EndPeriod("leds")

(* ---------------------------------- reporter --------------------------- *)
\* main.c:1167: ev3_clear_lcd()
reporter_clear ==
  /\ pc["reporter"] = "clear"
  /\ lcd' = "blank"
  /\ Goto("reporter", "lock_used")
  /\ Append1("reporter", <<Hw("ev3_clear_lcd", 0)>>)
  /\ UNCHANGED <<owner, shared, locals, duty_cycle_sp, position_sp, command, led, timing, fate>>

\* main.c:1168
reporter_lock_used == Lock("reporter", "claw_used", "lock_used", "read_used")

\* main.c:1169-1187: snapshot ClawClosed, draw the title, the glyph, the time
reporter_read_used ==
  /\ pc["reporter"] = "read_used"
  /\ Unlock("claw_used")
  /\ lcd' = IF claw_used_status THEN "circle" ELSE "circle_out"
  /\ Goto("reporter", "sleep")
  /\ Append1("reporter", <<Hw("ev3_text_lcd_normal", 0),
                           Hw("ev3_circle_lcd", BoolInt(claw_used_status)),
                           Hw("ev3_text_lcd_normal", 0)>>)
  /\ UNCHANGED <<shared, locals, duty_cycle_sp, position_sp, command, led, timing, fate>>

\* main.c:1153-1193
reporter ==
  \/ is_close_pressed_lock("reporter")
  \/ loop_test("reporter", "clear")
  \/ reporter_clear
  \/ reporter_lock_used
  \/ reporter_read_used
  \/ EndPeriod("reporter")

(* ------------------------------ main thread --------------------------- *)
\* what the main thread leaves alone while it creates and joins the activities
main_rest ==
  <<owner, limit_reached, correction_in_progress, close, locals, devices, log, timing,
    failed, scenario, ghosts>>

\* main.c:551-576: pthread_mutex_init of the six mutexes
main_mutex_init ==
  /\ main = "mutex_init"
  /\ mutex_state' = [m \in Mutexes |-> "ready"]
  /\ main' = "globals"
  /\ UNCHANGED <<pc, new_motors_status, claw_used_status, main_i, main_rest>>

\* mutant: the Intent is left as the zero-initialised statics
zeroed_intent == [rotation |-> "ROTATE_RIGHT", elevation |-> "RISE", claw |-> "ACTIVE"]

\* main.c:579-582: the neutral Intent, ClawClosed false
neutral_intent == [rotation |-> "ROTATE_STOP", elevation |-> "ELEVATE_STOP", claw |-> "INACTIVE"]

main_globals ==
  /\ main = "globals"
  /\ new_motors_status' = neutral_intent
  /\ claw_used_status' = FALSE
  /\ main' = "create"
  /\ UNCHANGED <<pc, main_i, mutex_state, main_rest>>

\* main.c:585-597: one pthread_create; the activity starts at its loop test
main_create ==
  /\ main = "create"
  /\ pc' = [pc EXCEPT ![CreationOrder[main_i + 1]] = "test"]
  /\ main_i' = IF main_i + 1 = Len(CreationOrder) THEN 0 ELSE main_i + 1
  /\ main' = IF main_i + 1 = Len(CreationOrder) THEN "join" ELSE "create"
  /\ UNCHANGED <<new_motors_status, claw_used_status, mutex_state, main_rest>>

\* the first control position main reaches after its last pthread_join
after_joins == "destroy"

\* mutant: the joins do not wait
main_join_nowait ==
  /\ main = "join"
  /\ main_i' = IF main_i + 1 = Len(CreationOrder) THEN 0 ELSE main_i + 1
  /\ main' = IF main_i + 1 = Len(CreationOrder) THEN after_joins ELSE "join"
  /\ UNCHANGED <<pc, new_motors_status, claw_used_status, mutex_state, main_rest>>

\* main.c:600-607: one pthread_join returns once that activity has exited
main_join ==
  /\ main = "join"
  /\ pc[CreationOrder[main_i + 1]] = "done"
  /\ main_i' = IF main_i + 1 = Len(CreationOrder) THEN 0 ELSE main_i + 1
  /\ main' = IF main_i + 1 = Len(CreationOrder) THEN after_joins ELSE "join"
  /\ UNCHANGED <<pc, new_motors_status, claw_used_status, mutex_state, main_rest>>

\* main.c:619-624: pthread_mutex_destroy of the six mutexes
main_destroy ==
  /\ main = "destroy"
  /\ mutex_state' = [m \in Mutexes |-> "destroyed"]
  /\ main' = "park"
  /\ UNCHANGED <<pc, new_motors_status, claw_used_status, main_i, main_rest>>

\* main.c:634-636, 641-643, 648-650: position setpoint 0, run-to-abs-pos,
\* begin the settle delay
main_park ==
  LET m == ParkOrder[main_i + 1] IN
  /\ main = "park"
  /\ position_sp' = [position_sp EXCEPT ![m] = 0]
  /\ command' = [command EXCEPT ![m] = "run-to-abs-pos"]
  /\ main' = "park_settle"
  /\ UNCHANGED <<pc, owner, shared, locals, duty_cycle_sp, led, lcd, log, timing,
                 failed, scenario, main_i, mutex_state, ghosts>>

\* main.c:636, 643, 650: usleep(SUSPENSION_TIME) returns
main_park_settle ==
  /\ main = "park_settle"
  /\ main' = "park_poll"
  /\ UNCHANGED <<pc, new_motors_status, claw_used_status, main_i, mutex_state, main_rest>>

\* main.c:637, 644, 651: ev3_motor_state(...) & MOTOR_RUNNING
main_park_poll ==
  /\ main = "park_poll"
  /\ \E running \in BOOLEAN :
       IF running
         THEN main' = "park_poll_sleep" /\ main_i' = main_i
         ELSE /\ main_i' = main_i + 1
              /\ main' = IF main_i + 1 = Len(ParkOrder) THEN "reset" ELSE "park"
  /\ UNCHANGED <<pc, new_motors_status, claw_used_status, mutex_state, main_rest>>

\* main.c:638, 645, 652: usleep(CHECK_STATE_TIME) returns
main_park_poll_sleep ==
  /\ main = "park_poll_sleep"
  /\ main' = "park_poll"
  /\ UNCHANGED <<pc, new_motors_status, claw_used_status, main_i, mutex_state, main_rest>>

\* main.c:656-658: ev3_reset_motor on the three motors, then main returns
main_reset ==
  /\ main = "reset"
  /\ command' = [m \in Motors |-> "reset"]
  /\ main' = "exit"
  /\ UNCHANGED <<pc, owner, shared, locals, duty_cycle_sp, position_sp, led, lcd, log, timing,
                 failed, scenario, main_i, mutex_state, ghosts>>

\* main.c:551-668
main_thread ==
  \/ main_mutex_init
  \/ main_globals
  \/ main_create
  \/ main_join
  \/ main_destroy
  \/ main_park
  \/ main_park_settle
  \/ main_park_poll
  \/ main_park_poll_sleep
  \/ main_reset

\* the first control position of the loop body of each activity
BodyOf(t) ==
  CASE t = "buttons" -> "lock_motors"
    [] t \in {"color", "touch"} -> "sense"
    [] t \in Motors -> "lock_motors"
    [] t = "leds" -> "lock_corr"
    [] t = "reporter" -> "clear"

(* --------------------------- specifications --------------------------- *)
\* rotation axis: the button sampler, the touch sampler, the rotation controller
NextRotation ==
  \/ buttons_controller({"LEFT", "RIGHT"})
  \/ touch_sensor_controller({"ok"})
  \/ rotation_motor_controller

\* elevation axis: the button sampler, the color sampler, the elevation controller
NextElevation ==
  \/ buttons_controller({"UP", "DOWN"})
  \/ color_sensor_controller({"ok"})
  \/ elevation_motor_controller

\* claw: the button sampler, the claw controller, the LCD reporter
NextClaw ==
  \/ buttons_controller({"CENTER"})
  \/ claw_motor_controller
  \/ reporter

\* LEDs: the button sampler, the rotation controller, the LED reporter
NextLeds ==
  \/ buttons_controller({})
  \/ rotation_motor_controller
  \/ leds_controller

\* start and shutdown: the main thread and the button sampler run in full,
\* the other activities are scheduled for their loop tests
NextMain ==
  \/ main_thread
  \/ buttons_controller({})
  \/ \E t \in Threads \ {"buttons"} :
       is_close_pressed_lock(t) \/ loop_test(t, BodyOf(t))

\* every activity, in the company of those it shares observables with
Next ==
  \/ scenario = "rotation" /\ NextRotation
  \/ scenario = "elevation" /\ NextElevation
  \/ scenario = "claw" /\ NextClaw
  \/ scenario = "leds" /\ NextLeds
  \/ scenario = "main" /\ NextMain
Spec == Init /\ [][Next]_vars

\* the two axis controllers and the two samplers that raise their limit flags
NextAxes ==
  \/ touch_sensor_controller({"ok"})
  \/ color_sensor_controller({"ok"})
  \/ rotation_motor_controller
  \/ elevation_motor_controller
SpecAxes == InitAxes /\ [][NextAxes]_vars

\* the two axis controllers with the touch sampler alone: the reflectance
\* stays under the limit, so the elevation controller never finds its flag
\* set and performs only the recovery of the soft limit
elevation_under_limit ==
  \/ is_close_pressed_lock("elevation")
  \/ loop_test("elevation", "lock_motors")
  \/ axis_lock_motors("elevation")
  \/ axis_read_intent("elevation")
  \/ axis_lock_limit("elevation")
  \/ axis_read_limit("elevation")
  \/ axis_lock_corr_on("elevation")
  \/ axis_corr_on("elevation")
  \/ axis_settle("elevation")
  \/ axis_poll("elevation")
  \/ axis_poll_sleep("elevation")
  \/ axis_lock_corr_off("elevation")
  \/ axis_corr_off("elevation")
  \/ EndPeriod("elevation")
NextPair ==
  \/ touch_sensor_controller({"ok"})
  \/ rotation_motor_controller
  \/ elevation_under_limit
SpecPair == InitPair /\ [][NextPair]_vars

\* a sensor whose update can return an error: the button and color samplers
NextFaulty ==
  \/ buttons_controller({})
  \/ color_sensor_controller({"ok", "error"})
SpecFaulty == InitFaulty /\ [][NextFaulty]_vars

\* fair scheduling of the button sampler, the touch sampler and the rotation
\* controller: each activity that can take a step eventually takes one.
\* Nothing makes the motor leave RUNNING: what ev3_motor_state returns is the
\* device's answer.
NextLive ==
  \/ buttons_controller({})
  \/ touch_sensor_controller({"ok"})
  \/ rotation_motor_controller
SpecLive ==
  /\ InitLive
  /\ [][NextLive]_vars
  /\ WF_vars(buttons_controller({}))
  /\ WF_vars(touch_sensor_controller({"ok"}))
  /\ WF_vars(rotation_motor_controller)

\* the button sampler alone, with every combination of the five keys
NextButtons == buttons_controller(DirectionKeys)
SpecButtons == InitButtons /\ [][NextButtons]_vars

\* shutdown: the button sampler and one motor controller (with the sampler
\* of its limit flag) run in full; the other activities are looked at once
\* these have exited, one after the other in the order of their creation,
\* and take their loop test; the main thread goes from its joins to the
\* reset of the motors
Busy ==
  CASE scenario = "stop_rotation" -> {"buttons", "touch", "rotation"}
    [] scenario = "stop_elevation" -> {"buttons", "color", "elevation"}
    [] scenario = "stop_claw" -> {"buttons", "claw"}
Rest == SelectSeq(CreationOrder, LAMBDA t : t \notin Busy)
NextStopRotation ==
  \/ buttons_controller({"LEFT"})
  \/ touch_sensor_controller({"ok"})
  \/ rotation_motor_controller
NextStopElevation ==
  \/ buttons_controller({"DOWN"})
  \/ color_sensor_controller({"ok"})
  \/ elevation_motor_controller
NextStopClaw ==
  \/ buttons_controller({"CENTER"})
  \/ claw_motor_controller
NextShutdown ==
  \/ scenario = "stop_rotation" /\ NextStopRotation
  \/ scenario = "stop_elevation" /\ NextStopElevation
  \/ scenario = "stop_claw" /\ NextStopClaw
  \/ \E i \in 1..Len(Rest) :
       /\ \A t \in Busy : pc[t] = "done"
       /\ \A j \in 1..(i - 1) : pc[Rest[j]] = "done"
       /\ is_close_pressed_lock(Rest[i]) \/ loop_test(Rest[i], BodyOf(Rest[i]))
  \/ main_join
  \/ main_destroy
  \/ main_park
  \/ main_park_settle
  \/ main_park_poll
  \/ main_park_poll_sleep
  \/ main_reset
SpecShutdown == InitShutdown /\ [][NextShutdown]_vars

\* the activities each scenario schedules
Scheduled ==
  CASE scenario = "rotation" -> {"buttons", "touch", "rotation"}
    [] scenario = "elevation" -> {"buttons", "color", "elevation"}
    [] scenario = "claw" -> {"buttons", "claw", "reporter"}
    [] scenario = "leds" -> {"buttons", "rotation", "leds"}
    [] scenario = "axes" -> {"touch", "color", "rotation", "elevation"}
    [] scenario = "faulty" -> {"buttons", "color"}
    [] scenario = "live" -> {"buttons", "touch", "rotation"}
    [] scenario = "main" -> Threads
    [] scenario = "buttons" -> {"buttons"}
    [] scenario = "pair" -> {"touch", "rotation", "elevation"}
    [] scenario \in {"stop_rotation", "stop_elevation", "stop_claw"} -> Threads

\* the whole step relation of one activity
ThreadStep(t) ==
  CASE t = "buttons" -> buttons_controller(DirectionKeys)
    [] t = "color" -> color_sensor_controller({"ok"})
    [] t = "touch" -> touch_sensor_controller({"ok"})
    [] t = "rotation" -> rotation_motor_controller
    [] t = "elevation" -> elevation_motor_controller
    [] t = "claw" -> claw_motor_controller
    [] t = "leds" -> leds_controller
    [] t = "reporter" -> reporter

(* ------------------------------- claims ------------------------------- *)
Held(t) == {m \in Mutexes : owner[m] = t}
\* entry e occurs in sequence s, and f occurs after it
Then(s, e, f) == \E i, j \in 1..Len(s) : i < j /\ s[i] = e /\ s[j] = f
Kinds(s) == [i \in 1..Len(s) |-> s[i][1]]

\* an axis controller is inside a recovery: it has written the flag true in
\* this tick and has not yet written it false
InRecovery(a) ==
  /\ Wr("correction_in_progress", 1) \in Range(log[a])
  /\ Wr("correction_in_progress", 0) \notin Range(log[a])

\* C1: CorrectionInProgress is true exactly when at least one axis controller
\* is between its recovery entry and its recovery exit.
C1_CorrectionIffInRecovery ==
  correction_in_progress <=> (\E a \in Axes : InRecovery(a))

\* C2: no activity holds more than one mutex, and an activity that holds a
\* mutex is never waiting: it can always take its next step, so every held
\* mutex is released and no set of activities waits forever.
C2_OneMutexNoDeadlock ==
  \A t \in Threads :
    /\ Cardinality(Held(t)) <= 1
    /\ Held(t) # {} => ENABLED ThreadStep(t)
\* an activity waits for a mutex another activity holds
C2_Witness ==
  \E t, u \in Threads :
    /\ t # u
    /\ pc[t] \notin {"done", "sleep"}
    /\ ~ENABLED ThreadStep(t)
    /\ Held(u) # {}

\* C3 as stated: whenever a limit flag is true its controller issues the
\* relative recovery at its next tick, whatever it is doing; so no controller
\* has left its loop with its flag still set.
C3_FlagServicedAndClear ==
  \A a \in Axes : pc[a] = "done" => ~limit_reached[a]
\* C3 amended: a controller that reads its limit flag true at a tick issues
\* the relative recovery in that tick, before any other motor command, and
\* writes the flag false after it has seen the motor not running.
C3_ReadFlagThenRecover ==
  \A a \in Axes :
    (pc[a] = "sleep" /\ Rd("limit_reached", 1) \in Range(log[a])) =>
      /\ SubSeq(log[a], 1, 4) = <<Rd("limit_reached", 1), Wr("correction_in_progress", 1),
                                  Hw("ev3_set_position_sp", InitUnits(a)), Hw("run-to-rel-pos", 0)>>
      /\ Then(log[a], Hw("run-to-rel-pos", 0), Hw("ev3_motor_state", 0))
      /\ Then(log[a], Hw("ev3_motor_state", 0), Wr("limit_reached", 0))
      /\ Hw("run-to-abs-pos", 0) \notin Range(log[a])
\* a relative recovery has completed and the sampler has set the flag again
C3_Witness ==
  \E a \in Axes :
    /\ pc[a] = "sleep"
    /\ Rd("limit_reached", 1) \in Range(log[a])
    /\ limit_reached[a]

\* C4: every duty cycle commanded is in the allowed set of its axis.
C4_DutyInRange ==
  /\ duty_cycle_sp["rotation"] \in {-ROTATION_POWER, 0, ROTATION_POWER}
  /\ duty_cycle_sp["elevation"] \in {ELEVATION_UP_POWER, 0, ELEVATION_DOWN_POWER}
  /\ duty_cycle_sp["claw"] \in {-CLAW_POWER, 0, CLAW_POWER}
C4_Witness ==
  /\ duty_cycle_sp["elevation"] = ELEVATION_DOWN_POWER
  /\ Hw("ev3_set_duty_cycle_sp", ELEVATION_DOWN_POWER) \in Range(log["elevation"])

\* C5: Close changes only from false to true, only in the button sampler's
\* cancel step with Back read pressed; once true it stays true.
C5_CloseLatches ==
  [][close' # close =>
       /\ ~close /\ close'
       /\ pc["buttons"] = "cancel" /\ pc'["buttons"] = "sleep"
       /\ back_read']_vars
C5_Witness == close /\ back_read /\ pc["buttons"] = "done"

\* C6: once Close is true, every scheduled activity eventually exits.
C6_AllExit == close ~> (\A t \in Scheduled : pc[t] = "done")

\* C7 as stated: an activity that has exited did so within one period of its
\* own after Close was set, so no usleep longer than its period began after
\* the set.
C7_ExitWithinPeriod ==
  \A t \in Threads : pc[t] = "done" => stall[t] <= Period(t)
\* C7 amended: after Close is set an activity completes at most one
\* end-of-period sleep, and it has exited only with Close set.
C7_OneNapAfterClose ==
  \A t \in Threads :
    /\ naps[t] <= 1
    /\ pc[t] = "done" => close
\* the claw controller has exited after a 500 ms sleep begun with Close set
C7_Witness ==
  /\ pc["claw"] = "done"
  /\ naps["claw"] = 1
  /\ stall["claw"] = CLAW_CLOSE_TIME

\* C8: in no activity does a device operation follow a sleep without a read
\* of Close in between (the log restarts at each read of Close).
C8_CloseReadAfterSleep ==
  \A t \in Threads : ~Then(Kinds(log[t]), "sleep", "hw")

\* C9: an activity that has read Close true in its loop test performs no
\* device operation and no write to a shared observable: its only step is
\* the exit, and it takes no step after it.
C9_NothingAfterClose ==
  [][\A t \in Threads :
       (/\ (pc[t] = "test_cs" /\ close) \/ pc[t] = "done"
        /\ pc'[t] # pc[t] \/ log'[t] # log[t])
       => /\ pc[t] = "test_cs"
          /\ pc'[t] = "done"
          /\ log'[t] = log[t]
          /\ UNCHANGED <<shared, devices>>]_vars
\* a controller has exited on Close with its motor still powered
C9_Witness ==
  /\ pc["rotation"] = "done"
  /\ close
  /\ duty_cycle_sp["rotation"] # 0

\* C10: when a device operation of an activity has failed, Close is true by
\* the time that activity ends its tick.
C10_FailureSetsClose ==
  (failed # "none" /\ pc[failed] = "sleep") => close

\* C11: while CENTER is read pressed at every button tick, the claw controller
\* begins at most one toggle; it begins another only after CENTER has been
\* read released.
C11_OneToggleWhileHeld == held_toggles <= 1

\* the Intent the five keys stand for: a direction when exactly one key of
\* its pair is pressed, ACTIVE when CENTER is
ExpectedIntent(pressed) ==
  [rotation |-> IF {"LEFT", "RIGHT"} \cap pressed = {"LEFT"} THEN "ROTATE_LEFT"
                ELSE IF {"LEFT", "RIGHT"} \cap pressed = {"RIGHT"} THEN "ROTATE_RIGHT"
                ELSE "ROTATE_STOP",
   elevation |-> IF {"UP", "DOWN"} \cap pressed = {"UP"} THEN "RISE"
                 ELSE IF {"UP", "DOWN"} \cap pressed = {"DOWN"} THEN "LOWER"
                 ELSE "ELEVATE_STOP",
   claw |-> IF "CENTER" \in pressed THEN "ACTIVE" ELSE "INACTIVE"]

\* C12: for each of the 32 combinations of keys read in a button tick, the
\* Intent published in that tick is the one the combination stands for.
C12_IntentOfKeys ==
  \A pressed \in SUBSET {"LEFT", "RIGHT", "UP", "DOWN", "CENTER"} :
    (/\ log["buttons"] # <<>>
     /\ log["buttons"][1] = HwIn("motors", "ev3_button_pressed", KeyMask(pressed)))
    => new_motors_status = ExpectedIntent(pressed)
\* all five keys were read pressed: both axes stop, the claw is to toggle
C12_Witness ==
  /\ pc["buttons"] = "sleep"
  /\ log["buttons"][1] = HwIn("motors", "ev3_button_pressed", 31)
  /\ new_motors_status = [rotation |-> "ROTATE_STOP", elevation |-> "ELEVATE_STOP", claw |-> "ACTIVE"]

\* the control positions of main from the first parking command on
Parking == {"park_settle", "park_poll", "park_poll_sleep", "reset", "exit"}

\* C13: what a motor has been commanded changes only in a step of that
\* motor's own controller, or in a step of the main thread taken when all
\* eight activities have exited; and main is past its first parking command
\* only when all eight have exited.
C13_OwnControllerOnly ==
  [][/\ \A m \in Motors :
          (\/ duty_cycle_sp'[m] # duty_cycle_sp[m]
           \/ position_sp'[m] # position_sp[m]
           \/ command'[m] # command[m])
          => \/ pc'[m] # pc[m]
             \/ main' # main /\ \A t \in Threads : pc[t] = "done"
     /\ main' \in Parking => \A t \in Threads : pc'[t] = "done"]_vars
\* main has commanded the parking of the rotation motor
C13_Witness ==
  /\ main = "park_settle"
  /\ main_i = 0
  /\ command["rotation"] = "run-to-abs-pos"
  /\ \A t \in Threads : pc[t] = "done"

\* C14: no device operation is issued between the lock and the unlock of a
\* mutex.
C14_NoDeviceOpUnderMutex ==
  \A t \in Threads : \A i \in 1..Len(log[t]) : Len(log[t][i]) = 3

\* C15 as stated: the LEDs are not left red once no correction is in
\* progress; so the LED activity has not exited leaving them red with
\* CorrectionInProgress false.
C15_NotLeftRed ==
  (pc["leds"] = "done" /\ led = "red") => correction_in_progress
\* C15 amended: after each tick of the LED activity the LEDs are red exactly
\* when the value of CorrectionInProgress read in that tick was true, and
\* between ticks they are red exactly when the last value read was true.
C15_LedFollowsSnapshot ==
  [][/\ (pc["leds"] = "read_corr" /\ pc'["leds"] = "sleep")
          => ((led' = "red") <=> correction_in_progress)
     /\ (led' = "red") <=> previous'
     /\ led' \in {"default", "red", "green"}]_vars
\* the LEDs went red and are green again, the LED activity still running
C15_Witness ==
  /\ led = "green"
  /\ ~previous
  /\ pc["leds"] = "sleep"

\* C16: the claw controller alternates a close and an open, starting with a
\* close.  A close begins with the claw open and ends with claw_open false
\* and ClawClosed true; an open begins with the claw closed and ends, after
\* the move to absolute position 0 was commanded and the motor was seen not
\* running, with claw_open true and ClawClosed false.
C16_CloseThenOpen ==
  LET l == log["claw"] IN
  /\ pc["claw"] \in {"test", "test_cs", "lock_motors", "read_intent", "sleep", "done"}
       => (claw_used_status <=> ~claw_open)
  /\ pc["claw"] = "closing" => ~claw_used_status /\ ~claw_open
  /\ pc["claw"] \in {"settle", "poll", "poll_sleep"}
       => claw_used_status /\ ~claw_open /\ position_sp["claw"] = 0
  /\ (pc["claw"] = "sleep" /\ Hw("ev3_set_duty_cycle_sp", -40) \in Range(l))
       => /\ ~claw_open /\ claw_used_status
          /\ Hw("run-to-abs-pos", 0) \notin Range(l)
  /\ (pc["claw"] = "sleep" /\ Hw("run-to-abs-pos", 0) \in Range(l))
       => /\ claw_open /\ ~claw_used_status
          /\ position_sp["claw"] = 0
          /\ Then(l, Hw("ev3_set_position_sp", 0), Hw("run-to-abs-pos", 0))
          /\ Then(l, Hw("run-to-abs-pos", 0), Hw("ev3_motor_state", 0))
          /\ Then(l, Hw("ev3_motor_state", 0), Wr("claw_used", 0))
\* the claw controller has ended the tick of an open: the round trip is done
C16_Witness ==
  /\ pc["claw"] = "sleep"
  /\ Hw("run-to-abs-pos", 0) \in Range(log["claw"])
  /\ claw_open /\ ~claw_used_status

\* a command to a motor, as a log entry
MotorCommand(e) ==
  /\ e[1] = "hw"
  /\ e[2] \in {"ev3_set_duty_cycle_sp", "ev3_set_position_sp",
               "run-to-rel-pos", "run-to-abs-pos", "run-direct"}
Commands(l) == {i \in 1..Len(l) : MotorCommand(l[i])}

\* C17 as stated: at a tick where an axis controller reads the Intent it read
\* at the tick before (and had applied), it issues no motor command.
C17_RepeatedIntentNoCommand ==
  \A a \in Axes :
    (pc[a] = "sleep" /\ "steady" \in seen[a]) => Commands(log[a]) = {}
\* C17 amended: the same holds at a tick that performs no recovery; and a
\* tick without recovery that issues a command issues one duty cycle, that
\* of the Intent read, which becomes the current action.
C17_SteadyTickIssuesNothing ==
  \A a \in Axes :
    (pc[a] = "sleep" /\ Wr("correction_in_progress", 1) \notin Range(log[a])) =>
      /\ "steady" \in seen[a] => Commands(log[a]) = {}
      /\ Commands(log[a]) # {} =>
           /\ Cardinality(Commands(log[a])) = 1
           /\ axis_actual[a] = axis_next[a]
           /\ \E i \in Commands(log[a]) :
                /\ log[a][i][2] = "ev3_set_duty_cycle_sp"
                /\ log[a][i][3] = duty_cycle_sp[a]
\* a direction key was held over two ticks: nothing is issued at the second
C17_Witness ==
  /\ pc["rotation"] = "sleep"
  /\ "steady" \in seen["rotation"]
  /\ axis_next["rotation"] = "ROTATE_LEFT"
  /\ duty_cycle_sp["rotation"] = -30
  /\ Commands(log["rotation"]) = {}

\* C18: when the first activity is created the six mutexes are initialised
\* and the observables hold their neutral values; and a mutex is destroyed
\* only when all eight activities have exited.
C18_CreatedBeforeDestroyedAfter ==
  [][/\ ((\A t \in Threads : pc[t] = "unborn") /\ (\E t \in Threads : pc'[t] # "unborn"))
          => /\ \A m \in Mutexes : mutex_state[m] = "ready"
             /\ new_motors_status.rotation = "ROTATE_STOP"
             /\ new_motors_status.elevation = "ELEVATE_STOP"
             /\ new_motors_status.claw = "INACTIVE"
             /\ \A a \in Axes : ~limit_reached[a]
             /\ ~correction_in_progress /\ ~claw_used_status /\ ~close
     /\ \A m \in Mutexes : (mutex_state[m] = "raw") => (\A t \in Threads : pc[t] = "unborn")
     /\ (\E m \in Mutexes : mutex_state'[m] = "destroyed")
          => \A t \in Threads : pc'[t] = "done"]_vars
\* the mutexes have been destroyed
C18_Witness ==
  /\ \A m \in Mutexes : mutex_state[m] = "destroyed"
  /\ \A t \in Threads : pc[t] = "done"
  /\ main = "park"

\* the log of a tick without the polls that saw the motor running and
\* without the sleeps
Events(l) ==
  SelectSeq(l, LAMBDA e : e[1] # "sleep" /\ e # Hw("ev3_motor_state", 1))

\* C19: a sensor-limit recovery is, in this order and within one tick:
\* CorrectionInProgress set; the position setpoint (-350 rotation, +100
\* elevation) and run-to-rel-pos; the motor seen not running; the limit flag
\* cleared; duty 0 and run-direct, current action STOP; CorrectionInProgress
\* cleared.
C19_RecoveryOrder ==
  \A a \in Axes :
    (pc[a] = "sleep" /\ Hw("run-to-rel-pos", 0) \in Range(log[a])) =>
      /\ Events(log[a]) =
           <<Rd("limit_reached", 1),
             Wr("correction_in_progress", 1),
             Hw("ev3_set_position_sp", IF a = "rotation" THEN -350 ELSE 100),
             Hw("run-to-rel-pos", 0),
             Hw("ev3_motor_state", 0),
             Wr("limit_reached", 0),
             Hw("ev3_set_duty_cycle_sp", 0),
             Hw("run-direct", 0),
             Wr("correction_in_progress", 0)>>
      /\ axis_actual[a] = (IF a = "rotation" THEN "ROTATE_STOP" ELSE "ELEVATE_STOP")
      /\ duty_cycle_sp[a] = 0
      /\ command[a] = "run-direct"
\* the elevation controller has ended the tick of a sensor-limit recovery
C19_Witness ==
  /\ pc["elevation"] = "sleep"
  /\ Hw("run-to-rel-pos", 0) \in Range(log["elevation"])
  /\ position_sp["elevation"] = 100

\* C20: the recovery of a tick is a function of the limit flag read and of the
\* encoder position: flag set, the relative one, whatever the position; flag
\* clear and position beyond the soft limit, the move to absolute 0; else
\* none.  A tick performs at most one recovery.
C20_RecoveryChoice ==
  [][\A a \in Axes :
       /\ (pc[a] = "read_limit" /\ pc'[a] # "read_limit") =>
            LET beyond == Hw("ev3_get_position", 1) \in Range(log'[a]) IN
            /\ recovery'[a] = (IF limit_reached[a] THEN "rel"
                               ELSE IF beyond THEN "abs" ELSE "none")
            /\ (recovery'[a] # "none") <=> (pc'[a] = "lock_corr_on")
       /\ (pc'[a] = "settle") =>
            /\ position_sp'[a] = (IF recovery'[a] = "rel"
                                    THEN (IF a = "rotation" THEN -350 ELSE 100) ELSE 0)
            /\ command'[a] = (IF recovery'[a] = "rel" THEN "run-to-rel-pos" ELSE "run-to-abs-pos")
       /\ Cardinality({i \in 1..Len(log'[a]) :
                         log'[a][i] = Wr("correction_in_progress", 1)}) <= 1]_vars
\* flag clear, position beyond the soft limit: the move to absolute 0 is under way
C20_Witness ==
  \E a \in Axes :
    /\ pc[a] = "settle"
    /\ recovery[a] = "abs"
    /\ Rd("limit_reached", 0) \in Range(log[a])
    /\ Hw("ev3_get_position", 1) \in Range(log[a])
    /\ command[a] = "run-to-abs-pos"

\* C21: the wait for motion completion is bounded: a controller that has
\* issued the positioned command of a recovery eventually sees the motor not
\* running and leaves the poll loop.
C21_PollLoopEnds ==
  (pc["rotation"] = "settle") ~> (pc["rotation"] \in {"lock_clear", "lock_corr_off"})

C23_DriveIssuesRunDirect ==
  \A a \in Axes :
    (/\ pc[a] = "sleep"
     /\ Wr("correction_in_progress", 1) \notin Range(log[a])
     /\ Commands(log[a]) # {})
    => Then(log[a], Hw("ev3_set_duty_cycle_sp", duty_cycle_sp[a]), Hw("run-direct", 0))

\* activity t takes the step, holding mutex m when it does
StepsHolding(t, m) == pc'[t] # pc[t] /\ owner[m] = t

\* C24: in every step of an activity that writes a shared observable, or
\* that takes a value read from one (into a local, into what it logs or
\* displays, into its loop test), the activity holds that observable's
\* mutex; the three Intent fields are written by the button sampler in one
\* hold of the Intent mutex.
C24_AccessUnderOwnMutex ==
  [][main' = main =>
       /\ new_motors_status' # new_motors_status =>
            \E t \in {"buttons", "claw"} : StepsHolding(t, "motors")
       /\ (\E f \in {"rotation", "elevation"} : new_motors_status'[f] # new_motors_status[f]) =>
            /\ StepsHolding("buttons", "motors")
            /\ Len(log'["buttons"]) = 2
            /\ log'["buttons"][2] = Wr("new_motors_status", 0)
       /\ \A a \in Axes :
            /\ limit_reached'[a] # limit_reached[a] =>
                 \E t \in {a, SamplerOf(a)} : StepsHolding(t, LimitMutex(a))
            /\ axis_next'[a] # axis_next[a] => StepsHolding(a, "motors")
            /\ (\E i \in (Len(log[a]) + 1)..Len(log'[a]) : log'[a][i][1] = "read") =>
                 StepsHolding(a, LimitMutex(a))
       /\ correction_in_progress' # correction_in_progress =>
            \E a \in Axes : StepsHolding(a, "correction")
       /\ claw_used_status' # claw_used_status => StepsHolding("claw", "claw_used")
       /\ close' # close => StepsHolding("buttons", "close")
       /\ claw_status' # claw_status => StepsHolding("claw", "motors")
       /\ (previous' # previous \/ led' # led) => StepsHolding("leds", "correction")
       /\ (lcd' # lcd /\ lcd' # "blank") => StepsHolding("reporter", "claw_used")
       /\ \A t \in Threads :
            (pc[t] = "test_cs" /\ pc'[t] # pc[t]) => StepsHolding(t, "close")]_vars
\* the rotation controller holds the Intent mutex to read what the button
\* sampler has published under its own hold
C24_Witness ==
  /\ pc["rotation"] = "read_intent"
  /\ owner["motors"] = "rotation"
  /\ new_motors_status.rotation = "ROTATE_LEFT"
  /\ pc["buttons"] = "lock_close"
  /\ Wr("new_motors_status", 0) \in Range(log["buttons"])

\* what activity t has logged in this step
NewEntries(t) == {log'[t][i] : i \in (Len(log[t]) + 1)..Len(log'[t])}

\* C25: a step of the rotation or elevation controller changes no field of
\* Intent and writes none; a step of the claw controller changes of Intent
\* only the claw field, only to INACTIVE, only as the last step of a tick in
\* which it toggled; no controller's step changes Close, and no step of the
\* claw controller changes a limit flag or CorrectionInProgress.
C25_ControllersLeaveIntentAndClose ==
  [][\A m \in Motors :
       pc'[m] # pc[m] =>
         /\ close' = close
         /\ \A e \in NewEntries(m) :
              e[1] = "write" =>
                e[2] \in (IF m = "claw" THEN {"claw_used", "new_motors_status.claw"}
                          ELSE {"limit_reached", "correction_in_progress"})
         /\ m \in Axes => new_motors_status' = new_motors_status
         /\ m = "claw" =>
              /\ limit_reached' = limit_reached
              /\ correction_in_progress' = correction_in_progress
              /\ new_motors_status'.rotation = new_motors_status.rotation
              /\ new_motors_status'.elevation = new_motors_status.elevation
              /\ (\/ new_motors_status' # new_motors_status
                  \/ \E e \in NewEntries(m) : e[2] = "new_motors_status.claw") =>
                   /\ new_motors_status'.claw = "INACTIVE"
                   /\ NewEntries(m) = {Wr("new_motors_status.claw", 0)}
                   /\ pc'[m] = "sleep"
                   /\ claw_status = "ACTIVE"
                   /\ \E v \in {0, 1} : Wr("claw_used", v) \in Range(log[m])]_vars
\* the claw controller has acknowledged a toggle
C25_Witness ==
  /\ pc["claw"] = "sleep"
  /\ Wr("new_motors_status.claw", 0) \in Range(log["claw"])
  /\ new_motors_status.claw = "INACTIVE"
  /\ claw_used_status

TickBoundary == {"test", "test_cs", "lock_motors", "sleep", "done"}

\* C27: at every tick boundary of an axis controller the duty cycle last
\* commanded to its motor is the power constant of its current action
\* (rotation: STOP 0, RIGHT +30, LEFT -30; elevation: STOP 0, RISE -30,
\* LOWER +20), after a recovery too.
C27_DutyMatchesCurrentAction ==
  /\ pc["rotation"] \in TickBoundary =>
       duty_cycle_sp["rotation"] =
         (CASE axis_actual["rotation"] = "ROTATE_STOP" -> 0
            [] axis_actual["rotation"] = "ROTATE_RIGHT" -> 30
            [] axis_actual["rotation"] = "ROTATE_LEFT" -> -30)
  /\ pc["elevation"] \in TickBoundary =>
       duty_cycle_sp["elevation"] =
         (CASE axis_actual["elevation"] = "ELEVATE_STOP" -> 0
            [] axis_actual["elevation"] = "RISE" -> -30
            [] axis_actual["elevation"] = "LOWER" -> 20)
\* the rotation controller has ended a recovery in a tick that read the
\* Intent ROTATE_RIGHT: the motor is stopped and the current action is STOP
C27_Witness ==
  /\ pc["rotation"] = "sleep"
  /\ Hw("run-direct", 0) \in Range(log["rotation"])
  /\ axis_actual["rotation"] = "ROTATE_STOP"
  /\ axis_next["rotation"] = "ROTATE_RIGHT"
  /\ duty_cycle_sp["rotation"] = 0

\* C28: a limit flag becomes true only for a reading taken after the flag's
\* most recent clear: the sampler's write never makes the flag true for a
\* reading that is older than the clear.
C28_NoSetFromOldReading ==
  [][\A a \in Axes :
       (~limit_reached[a] /\ limit_reached'[a]) => ~stale[a]]_vars

\* C29: the claw controller's acknowledgement overwrites only the ACTIVE its
\* toggle acted on: it never makes INACTIVE an ACTIVE that the button sampler
\* has published since the controller read the Intent.
C29_AckKeepsNewActive ==
  [][(pc["claw"] = "ack" /\ pc'["claw"] = "sleep" /\ new_motors_status.claw = "ACTIVE")
       => ~unserved]_vars

\* the main thread has issued its parking command for motor m
HasParked(m) ==
  LET i == CHOOSE k \in 1..Len(ParkOrder) : ParkOrder[k] = m IN
  \/ main \in {"reset", "exit"}
  \/ main \in {"park", "park_settle", "park_poll", "park_poll_sleep"} /\ main_i >= i
  \/ main \in {"park_settle", "park_poll", "park_poll_sleep"} /\ main_i = i - 1

\* C30: a motor controller that exits on Close issues no device command in
\* its exit; from then until the main thread's parking command for that
\* motor nothing is commanded to it, so the motor stays in run-direct mode
\* with the duty cycle it had, zero or not; and that parking command (position
\* 0, run-to-abs-pos) is issued only when all eight activities have exited.
C30_PowerStaysUntilParking ==
  [][\A m \in Motors :
       /\ (pc[m] = "test_cs" /\ pc'[m] = "done") =>
            /\ devices' = devices
            /\ log'[m] = log[m]
       /\ (pc[m] = "done" /\ ~HasParked(m)') =>
            /\ duty_cycle_sp'[m] = duty_cycle_sp[m]
            /\ position_sp'[m] = position_sp[m]
            /\ command'[m] = command[m]
       /\ (pc'[m] = "done" /\ ~HasParked(m)') => command'[m] = "run-direct"
       /\ HasParked(m)' => \A t \in Threads : pc'[t] = "done"
       /\ (~HasParked(m) /\ HasParked(m)') =>
            /\ pc[m] = "done"
            /\ position_sp'[m] = 0
            /\ command'[m] = "run-to-abs-pos"
            /\ duty_cycle_sp'[m] = duty_cycle_sp[m]]_vars
\* all eight activities have been joined and the rotation motor, not parked
\* yet, is still driven at the duty cycle commanded before Close
C30_Witness ==
  /\ main = "park"
  /\ main_i = 0
  /\ pc["rotation"] = "done"
  /\ command["rotation"] = "run-direct"
  /\ duty_cycle_sp["rotation"] = -30

\* C31: in every step in which a controller writes a duty cycle and issues
\* no run-direct command after it (an axis controller on a change of Intent,
\* the claw controller cutting the power after the 500 ms close), the last
\* command its motor received is run-direct; and between two ticks the last
\* command every motor received is run-direct.
C31_DutyWrittenInRunDirect ==
  [][\A m \in Motors :
       /\ (/\ pc'[m] # pc[m]
           /\ \/ duty_cycle_sp'[m] # duty_cycle_sp[m]
              \/ \E e \in NewEntries(m) : e[2] = "ev3_set_duty_cycle_sp"
           /\ Hw("run-direct", 0) \notin NewEntries(m))
          => /\ command[m] = "run-direct"
             /\ command'[m] = "run-direct"
       /\ pc'[m] \in {"test", "test_cs", "lock_motors", "sleep"} => command'[m] = "run-direct"]_vars
\* the rotation controller has ended the tick of a change of Intent: one duty
\* cycle written, no run-direct issued, the motor in run-direct mode
C31_Witness ==
  /\ pc["rotation"] = "sleep"
  /\ Hw("ev3_set_duty_cycle_sp", -30) \in Range(log["rotation"])
  /\ Hw("run-direct", 0) \notin Range(log["rotation"])
  /\ command["rotation"] = "run-direct"
  /\ duty_cycle_sp["rotation"] = -30

\* C32: between two toggles (at every tick boundary of the claw controller)
\* ClawClosed is the negation of claw_open; ClawClosed changes only in a step
\* of the claw controller taken after the motion phase of its toggle: to true
\* after the 500 ms close and the power cut, to false after the motor was
\* seen not running at the end of an opening.
C32_ClawClosedAfterMotion ==
  [][/\ pc'["claw"] \in {"test", "test_cs", "lock_motors", "read_intent", "sleep", "done"}
          => (claw_used_status' <=> ~claw_open')
     /\ claw_used_status' # claw_used_status =>
          LET l == log["claw"] IN
          /\ pc'["claw"] = "lock_ack"
          /\ claw_open' = ~claw_used_status'
          /\ IF claw_used_status'
               THEN /\ Then(l, Hw("ev3_set_duty_cycle_sp", -40), Nap("usleep", 500000))
                    /\ Then(l, Nap("usleep", 500000), Hw("ev3_set_duty_cycle_sp", 0))
               ELSE /\ Then(l, Hw("run-to-abs-pos", 0), Hw("ev3_motor_state", 0))
                    /\ Then(l, Hw("ev3_motor_state", 0), Hw("run-direct", 0))]_vars
\* the LCD reporter is reading ClawClosed during the 500 ms close: the claw
\* is no longer open and the value it reads is still false
C32_Witness ==
  /\ pc["claw"] = "closing"
  /\ ~claw_open
  /\ pc["reporter"] = "read_used"
  /\ owner["claw_used"] = "reporter"
  /\ ~claw_used_status

====
